---- MODULE Spec2Model ----
(***************************************************************************)
(* Model of the parmelan-trip data pipeline:                               *)
(*   gpx_converter.py   one GPX track -> route-dayN.json, elevation-dayN   *)
(*   combine_routes.py  route-day1.json + route-day2.json -> combined      *)
(*                                                                         *)
(* Each script is a process that runs once: pc is "start" before the run   *)
(* and "done", "returned" or the name of the exception after it.  The file *)
(* system is the function `files` from paths to contents; a path outside   *)
(* its domain does not exist.  A JSON object (a Python dict) is a function *)
(* from its keys, so a missing key is a key outside the domain.  Python's  *)
(* None is the empty tuple and an optional number is None or <<number>>.   *)
(*                                                                         *)
(* Distances are kilometres.  Tracks run along one meridian with latitude  *)
(* counted in units of 1/R radian, where the haversine formula gives       *)
(* exactly |lat2 - lat1| km; float addition of such values is exact.       *)
(***************************************************************************)
EXTENDS Integers, Sequences, FiniteSets, TLC

VARIABLES files, pc, segment_points

vars == <<files, pc, segment_points>>

-----------------------------------------------------------------------------
(* Bounds and input domains *)

MaxTrackPoints == 3
MaxDay1Points == 3
MaxDay2Points == 2

Latitudes == 0..2
Longitudes == {0}
Elevations == {-1, 0, 2}
Distances == {0, 2, 5}
Days == {1, 2}
MinDistances == {0, 1}

None == <<>>

GpxFile == "track.gpx"
CombinedFile == "data/route-combined.json"

-----------------------------------------------------------------------------
(* Python dict helpers *)

Get(d, k, default) == IF k \in DOMAIN d THEN d[k] ELSE default

Put(d, k, v) == [x \in (DOMAIN d) \cup {k} |-> IF x = k THEN v ELSE d[x]]

Last(s) == s[Len(s)]

Abs(x) == IF x < 0 THEN -x ELSE x

-----------------------------------------------------------------------------
(* gpx_converter.py *)

parse_time(gpx_time) ==
    IF gpx_time # None THEN <<gpx_time[1], gpx_time[2]>> ELSE None

calculate_distance_signed(lat1, lon1, lat2, lon2) ==
    lat2 - lat1

calculate_distance(lat1, lon1, lat2, lon2) ==
    Abs(lat2 - lat1)

(* gpxpy's reduce_points is a library call whose code is not part of the   *)
(* repository: its result is any order-preserving selection of the points. *)
RECURSIVE Subsequences(_)
Subsequences(s) ==
    IF s = <<>> THEN {<<>>}
    ELSE LET rest == Subsequences(Tail(s))
         IN  rest \cup {<<Head(s)>> \o r : r \in rest}

reduce_points(points, min_distance) == Subsequences(points)

LoopStart ==
    [all_points |-> <<>>, elevation_points |-> <<>>, total_distance |-> 0,
     prev |-> None]

LoopBody(st, point) ==
    LET lat == point.latitude
        lon == point.longitude
        elevation == IF point.elevation # None THEN point.elevation[1] ELSE 0
        time == parse_time(point.time)
        total_distance ==
            IF st.prev # None
            THEN st.total_distance
                 + calculate_distance(st.prev[1], st.prev[2], lat, lon)
            ELSE st.total_distance
    IN  [all_points |->
            Append(st.all_points,
                   [lat |-> lat, lon |-> lon, elevation |-> elevation,
                    time |-> time, distance |-> total_distance]),
         elevation_points |->
            IF point.elevation # None
            THEN Append(st.elevation_points,
                        [distance |-> total_distance,
                         elevation |-> point.elevation[1], time |-> time])
            ELSE st.elevation_points,
         total_distance |-> total_distance,
         prev |-> <<lat, lon>>]

RECURSIVE Accumulate(_, _)
Accumulate(st, points) ==
    IF points = <<>> THEN st
    ELSE Accumulate(LoopBody(st, Head(points)), Tail(points))

RECURSIVE ElevationProfile_nonneg(_)
ElevationProfile_nonneg(all_points) ==
    IF all_points = <<>> THEN <<>>
    ELSE LET point == Head(all_points)
         IN  (IF point.elevation >= 0
              THEN <<[distance |-> point.distance,
                      elevation |-> point.elevation, time |-> point.time]>>
              ELSE <<>>) \o ElevationProfile_nonneg(Tail(all_points))

(* stored elevations are numbers, so the `is not None` test always passes *)
RECURSIVE ElevationProfile(_)
ElevationProfile(all_points) ==
    IF all_points = <<>> THEN <<>>
    ELSE LET point == Head(all_points)
         IN  (IF point.elevation > 0
              THEN <<[distance |-> point.distance,
                      elevation |-> point.elevation, time |-> point.time]>>
              ELSE <<>>) \o ElevationProfile(Tail(all_points))

RouteData(all_points, total_distance) ==
    [total_distance |-> total_distance,
     start_time |-> IF all_points # <<>> THEN all_points[1].time ELSE None,
     end_time |-> IF all_points # <<>> THEN Last(all_points).time ELSE None,
     points |-> all_points]

ElevationData(all_points, total_distance) ==
    [total_distance |-> total_distance,
     points |-> ElevationProfile(all_points)]

RouteFile(day) ==
    IF day = 1 THEN "data/route-day1.json" ELSE "data/route-day2.json"

ElevationFile(day) ==
    IF day = 1 THEN "data/elevation-day1.json" ELSE "data/elevation-day2.json"

JsonFile(data) == [kind |-> "json", data |-> data]

FirstSegment_lenient(gpx) ==
    IF gpx.tracks = <<>> THEN None
    ELSE IF gpx.tracks[1].segments = <<>> THEN <<[points |-> <<>>]>>
    ELSE <<gpx.tracks[1].segments[1]>>

(* None stands for the ValueError raised when there is no track or segment *)
FirstSegment(gpx) ==
    IF gpx.tracks = <<>> THEN None
    ELSE IF gpx.tracks[1].segments = <<>> THEN None
    ELSE <<gpx.tracks[1].segments[1]>>

convert_gpx_to_json(gpx_file, route_output, elevation_output, min_distance) ==
    /\ pc = "start"
    /\ gpx_file \in DOMAIN files
    /\ files[gpx_file].kind = "gpx"
    /\ LET gpx == files[gpx_file].data
           segment == FirstSegment(gpx)
       IN  \/ /\ segment = None
              /\ pc' = "ValueError"
              /\ UNCHANGED <<files, segment_points>>
           \/ /\ segment # None
              /\ \E reduced \in reduce_points(segment[1].points, min_distance) :
                    LET st == Accumulate(LoopStart, reduced)
                        route_data ==
                            RouteData(st.all_points, st.total_distance)
                        elevation_data ==
                            ElevationData(st.all_points, st.total_distance)
                    IN  /\ segment_points' = reduced
                        /\ files' = Put(Put(files, route_output,
                                            JsonFile(route_data)),
                                        elevation_output,
                                        JsonFile(elevation_data))
                        /\ pc' = "done"

main ==
    \E day \in Days, min_distance \in MinDistances :
        convert_gpx_to_json(GpxFile, RouteFile(day), ElevationFile(day),
                            min_distance)

(* Input tracks *)

RECURSIVE SeqsUpTo(_, _)
SeqsUpTo(S, n) ==
    IF n = 0 THEN {<<>>}
    ELSE LET shorter == SeqsUpTo(S, n - 1)
         IN  shorter \cup {Append(s, x) : s \in {t \in shorter : Len(t) = n - 1},
                                          x \in S}

TrackTime(i) == <<7, i, 30>>

RawPoints == [latitude : Latitudes, longitude : Longitudes,
              elevation : {None} \cup {<<e>> : e \in Elevations}]

TimedPoints(raw, has_time) ==
    [i \in 1..Len(raw) |->
        [latitude |-> raw[i].latitude, longitude |-> raw[i].longitude,
         elevation |-> raw[i].elevation,
         time |-> IF has_time THEN TrackTime(i) ELSE None]]

GpxInputs ==
    {[tracks |-> <<>>], [tracks |-> <<[segments |-> <<>>]>>]}
    \cup {[tracks |-> <<[segments |-> <<[points |-> TimedPoints(raw, t)]>>]>>] :
            raw \in SeqsUpTo(RawPoints, MaxTrackPoints), t \in BOOLEAN}

InitConvert ==
    /\ pc = "start"
    /\ segment_points = <<>>
    /\ \E gpx \in GpxInputs :
          files = [p \in {GpxFile} |-> [kind |-> "gpx", data |-> gpx]]

NextConvert == main

SpecConvert == InitConvert /\ [][NextConvert]_vars

-----------------------------------------------------------------------------
(* combine_routes.py *)

load_route_data(filename) ==
    IF filename \notin DOMAIN files THEN None
    ELSE IF files[filename].kind # "json" THEN None
    ELSE <<files[filename].data>>

Falsy(loaded) == IF loaded = None THEN TRUE ELSE DOMAIN loaded[1] = {}

NoPoints_both(day1_points, day2_points) ==
    IF day1_points = <<>> THEN day2_points = <<>> ELSE FALSE

NoPoints(day1_points, day2_points) ==
    IF day1_points = <<>> THEN TRUE ELSE day2_points = <<>>

Day1Point_own(point, cumulative_distance) ==
    Put(Put(Put(point, "day", 1),
            "original_distance", Get(point, "distance", 0)),
        "distance", Get(point, "distance", 0))

Day1Point(point, cumulative_distance) ==
    Put(Put(Put(point, "day", 1),
            "original_distance", Get(point, "distance", 0)),
        "distance", cumulative_distance)

RECURSIVE Day1Loop_sum(_, _)
Day1Loop_sum(st, points) ==
    IF points = <<>> THEN st
    ELSE LET point == Head(points)
         IN  Day1Loop_sum(
                [combined_points |->
                    Append(st.combined_points,
                           Day1Point(point, st.cumulative_distance)),
                 cumulative_distance |->
                    st.cumulative_distance + Get(point, "distance", 0)],
                Tail(points))

RECURSIVE Day1Loop(_, _)
Day1Loop(st, points) ==
    IF points = <<>> THEN st
    ELSE LET point == Head(points)
         IN  Day1Loop(
                [combined_points |->
                    Append(st.combined_points,
                           Day1Point(point, st.cumulative_distance)),
                 cumulative_distance |-> Get(point, "distance", 0)],
                Tail(points))

Day2Point_no_offset(point, cumulative_distance) ==
    Put(Put(Put(point, "day", 2),
            "original_distance", Get(point, "distance", 0)),
        "distance", Get(point, "distance", 0))

Day2Point(point, cumulative_distance) ==
    Put(Put(Put(point, "day", 2),
            "original_distance", Get(point, "distance", 0)),
        "distance", cumulative_distance + Get(point, "distance", 0))

RECURSIVE Day2Loop(_, _)
Day2Loop(st, points) ==
    IF points = <<>> THEN st
    ELSE Day2Loop(
            [combined_points |->
                Append(st.combined_points,
                       Day2Point(Head(points), st.cumulative_distance)),
             cumulative_distance |-> st.cumulative_distance],
            Tail(points))

DayDistance_from_points(data) ==
    Get(Last(data.points), "distance", 0)

DayDistance(data) == Get(data, "total_distance", 0)

Day1EndIndex_count(day1_points) == Len(day1_points)

Day1EndIndex(day1_points) == Len(day1_points) - 1

CombinedData(day1_data, day2_data) ==
    LET day1_points == day1_data.points
        day2_points == day2_data.points
        day1_distance == DayDistance(day1_data)
        day2_distance == DayDistance(day2_data)
        total_distance == day1_distance + day2_distance
        st1 == Day1Loop([combined_points |-> <<>>, cumulative_distance |-> 0],
                        day1_points)
        combined_points == Day2Loop(st1, day2_points).combined_points
    IN  [total_distance |-> total_distance,
         day1_distance |-> day1_distance,
         day2_distance |-> day2_distance,
         start_time |-> Get(day1_data, "start_time", None),
         end_time |-> Get(day2_data, "end_time", None),
         day1_start_index |-> 0,
         day1_end_index |-> Day1EndIndex(day1_points),
         day2_start_index |-> Len(day1_points),
         day2_end_index |-> Len(combined_points) - 1,
         points |-> combined_points]

combine_routes ==
    /\ pc = "start"
    /\ LET day1_data == load_route_data(RouteFile(1))
           day2_data == load_route_data(RouteFile(2))
       IN  \/ /\ Falsy(day1_data) \/ Falsy(day2_data)
              /\ pc' = "returned"
              /\ UNCHANGED <<files, segment_points>>
           \/ /\ ~Falsy(day1_data) /\ ~Falsy(day2_data)
              /\ "points" \notin DOMAIN day1_data[1]
                    \/ "points" \notin DOMAIN day2_data[1]
              /\ pc' = "KeyError"
              /\ UNCHANGED <<files, segment_points>>
           \/ /\ ~Falsy(day1_data) /\ ~Falsy(day2_data)
              /\ "points" \in DOMAIN day1_data[1]
              /\ "points" \in DOMAIN day2_data[1]
              /\ NoPoints(day1_data[1].points, day2_data[1].points)
              /\ pc' = "returned"
              /\ UNCHANGED <<files, segment_points>>
           \/ /\ ~Falsy(day1_data) /\ ~Falsy(day2_data)
              /\ "points" \in DOMAIN day1_data[1]
              /\ "points" \in DOMAIN day2_data[1]
              /\ ~NoPoints(day1_data[1].points, day2_data[1].points)
              /\ files' = Put(files, CombinedFile,
                              JsonFile(CombinedData(day1_data[1],
                                                    day2_data[1])))
              /\ pc' = "done"
              /\ UNCHANGED segment_points

(* Input day datasets: any JSON the two route files may hold.  A point is  *)
(* a dict whose "lat" tells the points apart and whose "distance" key may  *)
(* be missing; other keys are copied the same way as "lat".                *)

DistanceOptions == {None} \cup {<<d>> : d \in Distances}

DayPoint(day, i, dist) ==
    IF dist = None THEN [lat |-> 100 * day + i]
    ELSE [lat |-> 100 * day + i, distance |-> dist[1]]

DayPointSeqs(day, n) ==
    UNION {{[i \in 1..k |-> DayPoint(day, i, ds[i])] :
                ds \in [1..k -> DistanceOptions]} : k \in 0..n}

DayDatasets(day, n) ==
    {<<>>, [total_distance |-> 0]}
    \cup {IF total = None
          THEN [start_time |-> <<8, day>>, end_time |-> <<17, day>>,
                points |-> pts]
          ELSE [total_distance |-> total[1], start_time |-> <<8, day>>,
                end_time |-> <<17, day>>, points |-> pts] :
            total \in DistanceOptions, pts \in DayPointSeqs(day, n)}

DayFileStates(day, n) ==
    {None, <<[kind |-> "garbage"]>>}
    \cup {<<JsonFile(d)>> : d \in DayDatasets(day, n)}

InitCombine ==
    /\ pc = "start"
    /\ segment_points = <<>>
    /\ \E c1 \in DayFileStates(1, MaxDay1Points),
          c2 \in DayFileStates(2, MaxDay2Points) :
          files = [p \in {RouteFile(d) : d \in {d \in Days :
                                (IF d = 1 THEN c1 ELSE c2) # None}} |->
                      IF p = RouteFile(1) THEN c1[1] ELSE c2[1]]

NextCombine == combine_routes

SpecCombine == InitCombine /\ [][NextCombine]_vars

-----------------------------------------------------------------------------
(* Properties of gpx_converter.py, checked under SpecConvert *)

Gpx == files[GpxFile].data

Route(day) == files[RouteFile(day)].data

Elevation(day) == files[ElevationFile(day)].data

NoTrackOrSegment ==
    IF Gpx.tracks = <<>> THEN TRUE ELSE Gpx.tracks[1].segments = <<>>

EmptyFirstSegment ==
    IF NoTrackOrSegment THEN FALSE
    ELSE Gpx.tracks[1].segments[1].points = <<>>

NoOutput ==
    \A day \in Days :
        RouteFile(day) \notin DOMAIN files
        /\ ElevationFile(day) \notin DOMAIN files

(* C1: the route points' distances never decrease along the sequence, the  *)
(* first point's distance is 0, and total_distance of a non-empty dataset  *)
(* is the last route point's distance.                                     *)
C1_AccumulatedDistances ==
    \A day \in Days :
        RouteFile(day) \in DOMAIN files =>
            LET points == Route(day).points
            IN  /\ \A i \in 1..(Len(points) - 1) :
                       points[i].distance <= points[i + 1].distance
                /\ points # <<>> =>
                       /\ points[1].distance = 0
                       /\ Route(day).total_distance = Last(points).distance

C1_Witness ==
    \E day \in Days :
        /\ RouteFile(day) \in DOMAIN files
        /\ Len(Route(day).points) = 3
        /\ Route(day).points[2].lat > Route(day).points[1].lat
        /\ Route(day).points[3].lat < Route(day).points[2].lat
        /\ Route(day).points[3].distance > Route(day).points[2].distance

PresentPositive(i) ==
    IF segment_points[i].elevation = None THEN FALSE
    ELSE segment_points[i].elevation[1] > 0

(* C6: the elevation dataset holds exactly the track points whose          *)
(* elevation is present and > 0, in route order, each with the distance of *)
(* its route point; a point without elevation is stored in the route with  *)
(* elevation 0 and left out of the profile; the profile is never longer    *)
(* than the route.                                                         *)
C6_ElevationProfile ==
    \A day \in Days :
        RouteFile(day) \in DOMAIN files =>
            LET route == Route(day).points
                profile == Elevation(day).points
                kept == SelectSeq([i \in 1..Len(segment_points) |-> i],
                                  PresentPositive)
            IN  /\ Len(route) = Len(segment_points)
                /\ \A i \in 1..Len(route) :
                       route[i].elevation =
                           IF segment_points[i].elevation = None THEN 0
                           ELSE segment_points[i].elevation[1]
                /\ Len(profile) = Len(kept)
                /\ \A k \in 1..Len(kept) :
                       /\ profile[k].distance = route[kept[k]].distance
                       /\ profile[k].elevation =
                              segment_points[kept[k]].elevation[1]
                /\ Len(profile) <= Len(route)

C6_Witness ==
    \E day \in Days :
        /\ RouteFile(day) \in DOMAIN files
        /\ Len(segment_points) = 3
        /\ segment_points[1].elevation = None
        /\ segment_points[2].elevation = <<0>>
        /\ segment_points[3].elevation = <<2>>
        /\ Route(day).points[1].elevation = 0
        /\ Len(Elevation(day).points) = 1
        /\ Elevation(day).points[1].distance > 0

(* C8 as stated: with no track, no segment or an empty first segment the   *)
(* conversion aborts and writes neither output file.                       *)
C8_NoOutputWithoutPoints ==
    (pc # "start" /\ (NoTrackOrSegment \/ EmptyFirstSegment)) => NoOutput

(* C8 amended: with no track or no segment the conversion raises and       *)
(* writes neither output file; with an empty first segment it completes    *)
(* and writes both files with total_distance 0 and no points.              *)
C8_AbortOnlyWithoutSegment ==
    pc # "start" =>
        /\ NoTrackOrSegment => (pc = "ValueError" /\ NoOutput)
        /\ EmptyFirstSegment =>
               /\ pc = "done"
               /\ \E day \in Days :
                      /\ RouteFile(day) \in DOMAIN files
                      /\ ElevationFile(day) \in DOMAIN files
                      /\ Route(day) = [total_distance |-> 0,
                                       start_time |-> None,
                                       end_time |-> None, points |-> <<>>]
                      /\ Elevation(day) = [total_distance |-> 0,
                                           points |-> <<>>]

C8_Witness ==
    /\ pc = "done"
    /\ EmptyFirstSegment
    /\ RouteFile(1) \in DOMAIN files
    /\ Route(1).points = <<>>

-----------------------------------------------------------------------------
(* Properties of combine_routes.py, checked under SpecCombine *)

Stitched == pc = "done" /\ CombinedFile \in DOMAIN files

Combined == files[CombinedFile].data

Day1Points == files[RouteFile(1)].data.points

Day2Points == files[RouteFile(2)].data.points

Loadable(day) ==
    IF RouteFile(day) \in DOMAIN files
    THEN files[RouteFile(day)].kind = "json"
    ELSE FALSE

EmptyPointSequence(day) ==
    IF Loadable(day)
    THEN IF "points" \in DOMAIN files[RouteFile(day)].data
         THEN files[RouteFile(day)].data.points = <<>>
         ELSE FALSE
    ELSE FALSE

StartsAtZeroNonDecreasing(points) ==
    /\ \A i \in 1..Len(points) : "distance" \in DOMAIN points[i]
    /\ points[1].distance = 0
    /\ \A i \in 1..(Len(points) - 1) :
           points[i].distance <= points[i + 1].distance

(* C2: when both days' own distances start at 0 and never decrease, the    *)
(* combined points' distances never decrease from one point to the next,   *)
(* the step from the last day-1 point to the first day-2 point included.   *)
C2_CombinedNonDecreasing ==
    (/\ Stitched
     /\ StartsAtZeroNonDecreasing(Day1Points)
     /\ StartsAtZeroNonDecreasing(Day2Points)) =>
        \A i \in 1..(Len(Combined.points) - 1) :
            Combined.points[i].distance <= Combined.points[i + 1].distance

C2_Witness ==
    /\ Stitched
    /\ Len(Day1Points) = 3
    /\ Len(Day2Points) = 2
    /\ StartsAtZeroNonDecreasing(Day1Points)
    /\ StartsAtZeroNonDecreasing(Day2Points)
    /\ Day1Points[2].distance = 2
    /\ Day1Points[3].distance = 5
    /\ Day2Points[2].distance = 2
    /\ Combined.points[3].distance = 2
    /\ Combined.points[4].distance = 5
    /\ Combined.points[5].distance = 7

(* C3: the combined points are day 1's points followed by day 2's in their *)
(* order; day1_start_index = 0, day1_end_index + 1 = day2_start_index,     *)
(* day2_end_index = number of points - 1; the point at (0-based) index i   *)
(* has day 1 exactly when i <= day1_end_index and day 2 exactly when       *)
(* i >= day2_start_index.                                                  *)
C3_OrderAndIndices ==
    Stitched =>
        LET points == Combined.points
            source == Day1Points \o Day2Points
        IN  /\ Len(points) = Len(source)
            /\ \A i \in 1..Len(points) : points[i].lat = source[i].lat
            /\ Combined.day1_start_index = 0
            /\ Combined.day1_end_index + 1 = Combined.day2_start_index
            /\ Combined.day2_end_index = Len(points) - 1
            /\ \A i \in 0..(Len(points) - 1) :
                   /\ points[i + 1].day = 1 <=> i <= Combined.day1_end_index
                   /\ points[i + 1].day = 2 <=> i >= Combined.day2_start_index

C3_Witness ==
    /\ Stitched
    /\ Len(Day1Points) = 3
    /\ Len(Day2Points) = 2
    /\ Combined.day1_end_index = 2
    /\ Combined.day2_start_index = 3
    /\ Combined.day2_end_index = 4
    /\ Combined.points[3].day = 1
    /\ Combined.points[4].day = 2

(* C4: the combined total_distance is day 1's total_distance plus day 2's  *)
(* total_distance, and day1_distance and day2_distance are those two       *)
(* values, whatever distances the points carry.                            *)
C4_TotalIsSumOfTotals ==
    (/\ Stitched
     /\ "total_distance" \in DOMAIN files[RouteFile(1)].data
     /\ "total_distance" \in DOMAIN files[RouteFile(2)].data) =>
        LET total1 == files[RouteFile(1)].data.total_distance
            total2 == files[RouteFile(2)].data.total_distance
        IN  /\ Combined.total_distance = total1 + total2
            /\ Combined.day1_distance = total1
            /\ Combined.day2_distance = total2

C4_Witness ==
    /\ Stitched
    /\ "total_distance" \in DOMAIN files[RouteFile(1)].data
    /\ "total_distance" \in DOMAIN files[RouteFile(2)].data
    /\ files[RouteFile(1)].data.total_distance = 5
    /\ files[RouteFile(2)].data.total_distance = 2
    /\ Get(Last(Day1Points), "distance", 0) = 2
    /\ Get(Last(Day2Points), "distance", 0) = 5
    /\ Combined.total_distance = 7

(* C5 as stated: every day-2 point has original_distance equal to its      *)
(* pre-stitch distance and distance equal to day 1's total_distance field  *)
(* plus that original distance.                                            *)
C5_OffsetIsDay1Total ==
    (Stitched /\ "total_distance" \in DOMAIN files[RouteFile(1)].data) =>
        \A j \in 1..Len(Day2Points) :
            LET point == Combined.points[Len(Day1Points) + j]
            IN  /\ point.original_distance = Get(Day2Points[j], "distance", 0)
                /\ point.distance =
                       files[RouteFile(1)].data.total_distance
                       + point.original_distance

(* C5 amended: every day-2 point has original_distance equal to its        *)
(* pre-stitch distance and distance equal to the pre-stitch distance of    *)
(* the last day-1 point plus that original distance.                       *)
C5_OffsetIsLastDay1Distance ==
    Stitched =>
        \A j \in 1..Len(Day2Points) :
            LET point == Combined.points[Len(Day1Points) + j]
            IN  /\ point.original_distance = Get(Day2Points[j], "distance", 0)
                /\ point.distance =
                       Get(Last(Day1Points), "distance", 0)
                       + point.original_distance

C5_Witness ==
    /\ Stitched
    /\ Len(Day1Points) = 3
    /\ Len(Day2Points) = 2
    /\ Get(Day1Points[2], "distance", 0) = 2
    /\ Get(Last(Day1Points), "distance", 0) = 5
    /\ Get(files[RouteFile(1)].data, "total_distance", 0) = 2
    /\ Get(Day2Points[2], "distance", 0) = 2
    /\ Combined.points[5].original_distance = 2
    /\ Combined.points[5].distance = 7

(* C7: when a day dataset cannot be loaded or has an empty point sequence, *)
(* the run ends without a combined output file.                            *)
C7_NoOutputOnEmptyDay ==
    (/\ pc # "start"
     /\ \E day \in Days : ~Loadable(day) \/ EmptyPointSequence(day)) =>
        CombinedFile \notin DOMAIN files

C7_Witness ==
    /\ pc = "returned"
    /\ Loadable(1)
    /\ "points" \in DOMAIN files[RouteFile(1)].data
    /\ Len(Day1Points) = 3
    /\ EmptyPointSequence(2)
    /\ CombinedFile \notin DOMAIN files

(* C10: every day-1 point keeps its pre-stitch distance in                 *)
(* original_distance and is stamped with the offset held before it is      *)
(* processed: 0 for the first point and the pre-stitch distance of the     *)
(* preceding day-1 point for every later one.                              *)
C10_Day1StampedWithPrevious ==
    Stitched =>
        \A k \in 1..Len(Day1Points) :
            /\ Combined.points[k].original_distance =
                   Get(Day1Points[k], "distance", 0)
            /\ Combined.points[k].distance =
                   IF k = 1 THEN 0
                   ELSE Get(Day1Points[k - 1], "distance", 0)

C10_Witness ==
    /\ Stitched
    /\ Len(Day1Points) = 3
    /\ Get(Day1Points[2], "distance", 0) = 2
    /\ Get(Day1Points[3], "distance", 0) = 5
    /\ Combined.points[3].original_distance = 5
    /\ Combined.points[3].distance = 2

====
